---- MODULE Spec2Model ----
(***************************************************************************)
(* Model of the sparseml package manifest (setup.py) and of the yolov5     *)
(* console-script hooks (src/sparseml/yolov5/scripts.py).                  *)
(*                                                                         *)
(* Python strings are TLA+ strings; f-strings and + are \o; Python lists   *)
(* are sequences; a dict is a function on its keys.                        *)
(***************************************************************************)
EXTENDS Naturals, Sequences, FiniteSets, TLC

\* ------------------------------------------------------------------ bounds
MaxMajor == 1
MaxMinor == 4
MaxPatch == 3
MaxVal == 2

\* ------------------------------------------------------- python helpers
\* Python values: None, booleans, integers and pathlib paths
PyNone == [type |-> "NoneType"]
PyBool(b) == [type |-> "bool", value |-> b]
PyInt(n) == [type |-> "int", value |-> n]
PosixPath(s) == [type |-> "PosixPath", value |-> s]

\* truthiness as tested by `x if flag else y`
Truthy(flag) ==
    CASE flag.type = "NoneType" -> FALSE
      [] flag.type = "bool" -> flag.value
      [] flag.type = "int" -> flag.value # 0

RECURSIVE IndexOf(_, _, _)
\* str.find(ch, i): first position >= i holding ch, 0 when there is none
IndexOf(s, ch, i) ==
    IF i > Len(s) THEN 0
    ELSE IF SubSeq(s, i, i) = ch THEN i
    ELSE IndexOf(s, ch, i + 1)

RECURSIVE LastIndexOf(_, _, _)
\* str.rfind(ch) searched down from i: last position <= i holding ch, else 0
LastIndexOf(s, ch, i) ==
    IF i < 1 THEN 0
    ELSE IF SubSeq(s, i, i) = ch THEN i
    ELSE LastIndexOf(s, ch, i - 1)

\* the text left of the first separator
Before(s, ch) == SubSeq(s, 1, IndexOf(s, ch, 1) - 1)
\* the text right of the first separator
After(s, ch) == SubSeq(s, IndexOf(s, ch, 1) + 1, Len(s))

Range(seq) == {seq[i] : i \in 1..Len(seq)}
NoDuplicates(seq) == \A i, j \in 1..Len(seq) : seq[i] = seq[j] => i = j

RECURSIVE Flatten(_)
\* list.extend of every element of a sequence of lists, in order
Flatten(ss) == IF ss = <<>> THEN <<>> ELSE Head(ss) \o Flatten(Tail(ss))

\* ---------------------------------------------- src/sparseml/version.py
\* version.py is executed by setup.py and overwrites the three defaults;
\* rel = PyNone stands for a version.py that leaves is_release unset.
Dotted(major, minor) == ToString(major) \o "." \o ToString(minor)

VersionPy(major, minor, patch, rel) ==
    [ is_release |-> rel,
      version |-> Dotted(major, minor) \o "." \o ToString(patch),
      version_major_minor |-> Dotted(major, minor) ]

\* ---------------------------------------------------------------- setup.py
version_nm_deps_full(ver) == ver.version

version_nm_deps(ver) == ver.version_major_minor \o ".0"

_PACKAGE_NAME_unset_is_release(ver) ==
    IF ver.is_release # PyNone THEN "sparseml" ELSE "sparseml-nightly"

_PACKAGE_NAME(ver) ==
    IF Truthy(ver.is_release) THEN "sparseml" ELSE "sparseml-nightly"

_deps ==
    << "jupyter>=1.0.0",
       "ipywidgets>=7.0.0",
       "pyyaml>=5.0.0",
       "progressbar2>=3.0.0",
       "numpy>=1.0.0",
       "matplotlib>=3.0.0",
       "merge-args>=0.1.0",
       "onnx>=1.5.0,<=1.10.1",
       "pandas>=0.25.0",
       "packaging>=20.0",
       "psutil>=5.0.0",
       "pydantic>=1.5.0",
       "requests>=2.0.0",
       "scikit-image>=0.15.0",
       "scipy>=1.0.0",
       "tqdm>=4.0.0",
       "toposort>=1.0",
       "GPUtil>=1.4.0",
       "protobuf>=3.12.2,<4" >>

_nm_deps(ver) ==
    << (IF Truthy(ver.is_release) THEN "sparsezoo" ELSE "sparsezoo-nightly")
       \o "~=" \o version_nm_deps(ver) >>

_deepsparse_deps(ver) ==
    << (IF Truthy(ver.is_release) THEN "deepsparse" ELSE "deepsparse-nightly")
       \o "~=" \o version_nm_deps(ver) >>

_onnxruntime_deps == << "onnxruntime>=1.0.0" >>

_pytorch_deps ==
    << "torch>=1.1.0,<=1.9.1",
       "tensorboard>=1.0",
       "tensorboardX>=1.0",
       "gputils" >>

_pytorch_vision_deps == _pytorch_deps \o << "torchvision>=0.3.0,<=0.10.1" >>

_tensorflow_v1_deps ==
    << "tensorflow<2.0.0", "tensorboard<2.0.0", "tf2onnx>=1.0.0,<1.6" >>

_tensorflow_v1_gpu_deps ==
    << "tensorflow-gpu<2.0.0", "tensorboard<2.0.0", "tf2onnx>=1.0.0,<1.6" >>

_keras_deps == << "tensorflow~=2.2.0", "keras2onnx>=1.0.0" >>

_dev_deps ==
    << "beautifulsoup4==4.9.3",
       "black==21.5b2",
       "flake8==3.9.2",
       "isort==5.8.0",
       "m2r2~=0.2.7",
       "mistune==0.8.4",
       "myst-parser~=0.14.0",
       "rinohtype~=0.4.2",
       "sphinx~=3.5.0",
       "sphinx-copybutton~=0.3.0",
       "sphinx-markdown-tables~=0.0.15",
       "sphinx-multiversion~=0.2.4",
       "sphinx-pydantic~=0.1.0",
       "sphinx-rtd-theme~=0.5.0",
       "wheel>=0.36.2",
       "pytest~=6.2.0",
       "pytest-mock~=3.6.0",
       "flaky~=3.7.0",
       "sphinx-rtd-theme",
       "click<8.1" >>

_setup_install_requires_with_deepsparse(ver) ==
    _nm_deps(ver) \o _deepsparse_deps(ver) \o _deps

_setup_install_requires(ver) == _nm_deps(ver) \o _deps

_setup_extras(ver) ==
    [ dev |-> _dev_deps,
      deepsparse |-> _deepsparse_deps(ver),
      onnxruntime |-> _onnxruntime_deps,
      torch |-> _pytorch_deps,
      torchvision |-> _pytorch_vision_deps,
      tf_v1 |-> _tensorflow_v1_deps,
      tf_v1_gpu |-> _tensorflow_v1_gpu_deps,
      tf_keras |-> _keras_deps ]

\* the tasks of the transformers loop, in loop order
TransformersTasks ==
    << "masked_language_modeling",
       "question_answering",
       "text_classification",
       "token_classification" >>

\* the two entries one iteration of the loop extends the table with
TransformersEntries_same_command(task) ==
    << "sparseml.transformers." \o task \o "=sparseml.transformers." \o task \o ":main",
       "sparseml.transformers." \o task \o "=sparseml.transformers." \o task \o ":main" >>

TransformersEntries(task) ==
    << "sparseml.transformers." \o task \o "=sparseml.transformers." \o task \o ":main",
       "sparseml.transformers.train." \o task \o "=sparseml.transformers." \o task \o ":main" >>

Yolov5Entries_val_twice ==
    << "sparseml.yolov5.export_onnx=sparseml.yolov5.scripts:export",
       "sparseml.yolov5.train=sparseml.yolov5.scripts:train",
       "sparseml.yolov5.validation=sparseml.yolov5.scripts:val",
       "sparseml.yolov5.val_onnx=sparseml.yolov5.scripts:val" >>

Yolov5Entries ==
    << "sparseml.yolov5.export_onnx=sparseml.yolov5.scripts:export",
       "sparseml.yolov5.train=sparseml.yolov5.scripts:train",
       "sparseml.yolov5.validation=sparseml.yolov5.scripts:val",
       "sparseml.yolov5.val_onnx=sparseml.yolov5.scripts:val_onnx" >>

_setup_entry_points ==
    [ console_scripts |->
        << "sparseml.benchmark=sparseml.benchmark.info:_main",
           "sparseml.framework=sparseml.framework.info:_main",
           "sparseml.sparsification=sparseml.sparsification.info:_main" >>
        \o Flatten([i \in 1..Len(TransformersTasks) |->
                        TransformersEntries(TransformersTasks[i])])
        \o << "sparseml.transformers.export_onnx=sparseml.transformers.export:main" >>
        \o << "sparseml.image_classification.export_onnx="
                \o "sparseml.pytorch.image_classification.export:main",
              "sparseml.image_classification.train="
                \o "sparseml.pytorch.image_classification.train:main",
              "sparseml.image_classification.lr_analysis="
                \o "sparseml.pytorch.image_classification.lr_analysis:main",
              "sparseml.image_classification.pr_sensitivity="
                \o "sparseml.pytorch.image_classification.pr_sensitivity:main" >>
        \o Yolov5Entries ]

\* the keyword arguments of the setup(...) call the claims are about
SetupCall(ver) ==
    [ name |-> _PACKAGE_NAME(ver),
      version |-> ver.version,
      install_requires |-> _setup_install_requires(ver),
      extras_require |-> _setup_extras(ver),
      entry_points |-> _setup_entry_points ]

\* how the packaging tool reads one console_scripts entry "name=module:attr"
EntryName(entry) == Before(entry, "=")
EntryModule(entry) == Before(After(entry, "="), ":")
EntryAttr(entry) == After(entry, ":")

RECURSIVE Dedup(_, _)
\* first-seen order, duplicates removed
Dedup(seq, seen) ==
    IF seq = <<>> THEN <<>>
    ELSE IF Head(seq) \in seen THEN Dedup(Tail(seq), seen)
    ELSE <<Head(seq)>> \o Dedup(Tail(seq), seen \cup {Head(seq)})

\* requirement list installed for `pip install sparseml[name]`
resolve(m, name) ==
    Dedup(m.install_requires \o m.extras_require[name], {})

\* ------------------------------------------- sparseml/yolov5/scripts.py
\* the imported collaborators, each named by the toolkit module it comes from
export_run == [module |-> "yolov5.export", name |-> "export_run"]
parse_export_args == [module |-> "yolov5.export", name |-> "parse_opt"]
parse_train_args == [module |-> "yolov5.train", name |-> "parse_opt"]
train_run == [module |-> "yolov5.train", name |-> "run"]
parse_val_args == [module |-> "yolov5.val", name |-> "parse_opt"]
val_run == [module |-> "yolov5.val", name |-> "val_run"]
parse_val_onnx_args == [module |-> "yolov5.val_onnx", name |-> "parse_opt"]
val_onnx_run == [module |-> "yolov5.val_onnx", name |-> "val_onnx_run"]

__all__ == << "train", "val", "export", "val_onnx" >>

\* the working directory of the process, which a relative __file__ is
\* resolved against
Cwd == "/work"

\* the values __file__ may have: the module installed in site-packages, or
\* imported from a checkout by a relative path
ModuleFiles ==
    { "/usr/lib/python3/site-packages/sparseml/yolov5/scripts.py",
      "src/sparseml/yolov5/scripts.py" }

\* Path.resolve(): the absolute path (no symbolic link on the way)
Resolve(p) ==
    IF SubSeq(p.value, 1, 1) = "/" THEN p
    ELSE PosixPath(Cwd \o "/" \o p.value)

\* Path.parents[0]: the path without its last component
Parent0(p) ==
    PosixPath(SubSeq(p.value, 1, LastIndexOf(p.value, "/", Len(p.value)) - 1))

\* Path(__file__).resolve().parents[0]: the directory holding scripts.py,
\* computed when the module is imported
DEFAULT_SAVE_PATH(file) == Parent0(Resolve(PosixPath(file)))

NoKwargs == [n \in {} |-> PyNone]

\* each hook: the parse function it calls, with which keywords, and the run
\* function it forwards to; file is the __file__ of the imported module
train(file) ==
    [ parse |-> parse_train_args,
      parse_kwargs |-> [default_project_dir |-> DEFAULT_SAVE_PATH(file)],
      run |-> train_run ]

val(file) ==
    [ parse |-> parse_val_args,
      parse_kwargs |-> [default_project_dir |-> DEFAULT_SAVE_PATH(file)],
      run |-> val_run ]

export(file) ==
    [ parse |-> parse_export_args,
      parse_kwargs |-> NoKwargs,
      run |-> export_run ]

val_onnx(file) ==
    [ parse |-> parse_val_onnx_args,
      parse_kwargs |-> NoKwargs,
      run |-> val_onnx_run ]

\* the functions the module sparseml.yolov5.scripts defines
ScriptsModule(file) ==
    [ train |-> train(file), val |-> val(file),
      export |-> export(file), val_onnx |-> val_onnx(file) ]


\* the object a parse function returns: an argparse Namespace
Namespace(fields) == [cls |-> "Namespace", dict |-> fields]

\* vars(opt): the attribute dictionary of the object
vars_(o) == o.dict

KwargsOf_as_one_keyword(o) == [opt |-> o]

\* **vars(opt): the keyword arguments of the run call
KwargsOf(o) == vars_(o)

\* the names a signature accepts by keyword
Accepted(sig) == sig.required \cup DOMAIN sig.defaults

CanBind_missing_as_none(sig, kwargs) ==
    sig.varkw \/ DOMAIN kwargs \subseteq Accepted(sig)

\* Python binds the keywords of run(**kwargs) to the signature before the
\* body runs: an unexpected keyword (without **kwargs in the signature) or
\* a missing required parameter raises TypeError
CanBind(sig, kwargs) ==
    /\ sig.varkw \/ DOMAIN kwargs \subseteq Accepted(sig)
    /\ sig.required \subseteq DOMAIN kwargs

\* the arguments the body of run sees: a keyword given wins over a default
Bind(sig, kwargs) ==
    [n \in DOMAIN kwargs \cup DOMAIN sig.defaults |->
        IF n \in DOMAIN kwargs THEN kwargs[n] ELSE sig.defaults[n]]

Raise(e) == [kind |-> "raise", exc |-> e]
Return(v) == [kind |-> "return", value |-> v]

Propagate_wrapped(e) == Raise("RuntimeError")

\* no hook has a try/except: an exception leaves the hook as it was raised
Propagate(e) == Raise(e)

HookResult_returns_run(v) == Return(v)

\* no hook has a return statement: the hook returns None
HookResult(v) == Return(PyNone)

CallRun_twice(log, hookdef, o) ==
    log \o << [fn |-> hookdef.run, kwargs |-> KwargsOf(o)],
              [fn |-> hookdef.run, kwargs |-> KwargsOf(o)] >>

\* the second statement of every hook: run(**vars(opt))
CallRun(log, hookdef, o) ==
    Append(log, [fn |-> hookdef.run, kwargs |-> KwargsOf(o)])

\* the first statement of every hook: opt = parse(...)
CallParse(log, hookdef) ==
    Append(log, [fn |-> hookdef.parse, kwargs |-> hookdef.parse_kwargs])

\* --------------------------------------------------- environment inputs
FieldNames == {"a", "b", "c"}
Values == {PyInt(n) : n \in 1..MaxVal}
ReturnValues == {PyNone} \cup Values
Exceptions == {"SystemExit", "ValueError", "RuntimeError"}
DefaultValue == PyInt(0)

\* the field mappings a parse function may return
Configs == UNION {[S -> Values] : S \in SUBSET FieldNames}

\* the signatures a run function may have
Signatures ==
    UNION {{[required |-> R, defaults |-> [n \in O |-> DefaultValue], varkw |-> k] :
                O \in SUBSET (FieldNames \ R), k \in BOOLEAN} :
           R \in SUBSET FieldNames}

Flags == {PyNone, PyBool(TRUE), PyBool(FALSE)}

\* ------------------------------------------------------------------ state
VARIABLES
    setup_globals,  \* is_release, version, version_major_minor of setup.py
    version_base,   \* the <<major, minor, patch>> version.py was written with
    manifest,       \* the keyword arguments setup() was called with
    module_file,    \* __file__ of sparseml.yolov5.scripts in this process
    pc,             \* position of the hook invocation in this process
    hook,           \* name of the hook function the console script entered
    runSig,         \* signature of the toolkit's run function
    calls,          \* collaborator calls made so far, in order
    opt,            \* the local `opt` of the hook
    bodyArgs,       \* arguments the body of the run function executed with
    raised,         \* what a collaborator call raised
    returned,       \* what the run function returned
    outcome         \* how the hook ended, as seen by its caller

setupVars == <<setup_globals, version_base, manifest>>
hookVars == <<module_file, pc, hook, runSig, calls, opt, bodyArgs, raised, returned, outcome>>
vars == <<setup_globals, version_base, manifest, module_file,
          pc, hook, runSig, calls, opt, bodyArgs, raised, returned, outcome>>

Unset == [kind |-> "unset"]
NotBuilt == [kind |-> "not built"]
Terminal == {"Succeeded", "Failed"}

Init ==
    /\ setup_globals = [is_release |-> PyNone, version |-> "unknown",
                        version_major_minor |-> "unknown"]
    /\ version_base = <<>>
    /\ manifest = NotBuilt
    /\ module_file = ""
    /\ pc = "NotStarted"
    /\ hook = ""
    /\ runSig = Unset
    /\ calls = <<>>
    /\ opt = Unset
    /\ bodyArgs = Unset
    /\ raised = Unset
    /\ returned = Unset
    /\ outcome = Unset

\* ------------------------------------------------------- setup.py, whole
RunSetup(major, minor, patch, rel) ==
    /\ setup_globals' = VersionPy(major, minor, patch, rel)
    /\ version_base' = <<major, minor, patch>>
    /\ manifest' = SetupCall(setup_globals')
    /\ UNCHANGED hookVars

\* ------------------------------------------- a console script, by step
\* the console script `cmd` imports its target and calls it; the hook makes
\* its parse call
EnterHook(entry, file, sig) ==
    /\ pc = "NotStarted"
    /\ EntryModule(entry) = "sparseml.yolov5.scripts"
    /\ EntryAttr(entry) \in DOMAIN ScriptsModule(file)
    /\ module_file' = file
    /\ hook' = EntryAttr(entry)
    /\ runSig' = sig
    /\ calls' = CallParse(calls, ScriptsModule(file)[hook'])
    /\ pc' = "Parsing"
    /\ UNCHANGED <<opt, bodyArgs, raised, returned, outcome>>
    /\ UNCHANGED setupVars

\* parse returns a configuration object; the hook calls run with its fields
ParseReturns(cfg) ==
    /\ pc = "Parsing"
    /\ opt' = Namespace(cfg)
    /\ calls' = CallRun(calls, ScriptsModule(module_file)[hook], opt')
    /\ pc' = "Running"
    /\ UNCHANGED <<module_file, hook, runSig, bodyArgs, raised, returned, outcome>>
    /\ UNCHANGED setupVars

\* parse raises: the hook ends without reaching its second statement
ParseRaises(e) ==
    /\ pc = "Parsing"
    /\ raised' = Raise(e)
    /\ outcome' = Propagate(e)
    /\ pc' = "Failed"
    /\ UNCHANGED <<module_file, hook, runSig, calls, opt, bodyArgs, returned>>
    /\ UNCHANGED setupVars

\* the keywords do not fit the signature: TypeError, the body does not run
RunBindError ==
    /\ pc = "Running"
    /\ ~CanBind(runSig, calls[Len(calls)].kwargs)
    /\ raised' = Raise("TypeError")
    /\ outcome' = Propagate("TypeError")
    /\ pc' = "Failed"
    /\ UNCHANGED <<module_file, hook, runSig, calls, opt, bodyArgs, returned>>
    /\ UNCHANGED setupVars

\* the body of run executes and returns v
RunReturns(v) ==
    /\ pc = "Running"
    /\ CanBind(runSig, calls[Len(calls)].kwargs)
    /\ bodyArgs' = Bind(runSig, calls[Len(calls)].kwargs)
    /\ returned' = Return(v)
    /\ outcome' = HookResult(v)
    /\ pc' = "Succeeded"
    /\ UNCHANGED <<module_file, hook, runSig, calls, opt, raised>>
    /\ UNCHANGED setupVars

\* the body of run executes and raises e
RunRaises(e) ==
    /\ pc = "Running"
    /\ CanBind(runSig, calls[Len(calls)].kwargs)
    /\ bodyArgs' = Bind(runSig, calls[Len(calls)].kwargs)
    /\ raised' = Raise(e)
    /\ outcome' = Propagate(e)
    /\ pc' = "Failed"
    /\ UNCHANGED <<module_file, hook, runSig, calls, opt, returned>>
    /\ UNCHANGED setupVars

Next ==
    \/ \E entry \in Range(_setup_entry_points.console_scripts),
          file \in ModuleFiles, sig \in Signatures : EnterHook(entry, file, sig)
    \/ \E cfg \in Configs : ParseReturns(cfg)
    \/ \E e \in Exceptions : ParseRaises(e)
    \/ RunBindError
    \/ \E v \in ReturnValues : RunReturns(v)
    \/ \E e \in Exceptions : RunRaises(e)

Spec == Init /\ [][Next]_vars

NextSetup ==
    \E major \in 0..MaxMajor, minor \in 0..MaxMinor, patch \in 0..MaxPatch,
       rel \in Flags : RunSetup(major, minor, patch, rel)

SpecSetup == Init /\ [][NextSetup]_vars

\* ================================================================ claims
HookDef == ScriptsModule(module_file)[hook]
ParseCall == [fn |-> HookDef.parse, kwargs |-> HookDef.parse_kwargs]
IsRunCall(c) == c.fn = HookDef.run
IsParseCall(c) == c.fn = HookDef.parse
RunCalls == {i \in 1..Len(calls) : IsRunCall(calls[i])}
ParseCalls == {i \in 1..Len(calls) : IsParseCall(calls[i])}

PcEdges ==
    { <<"NotStarted", "Parsing">>, <<"Parsing", "Running">>,
      <<"Parsing", "Failed">>, <<"Running", "Succeeded">>,
      <<"Running", "Failed">> }

C1_CallOrder ==
    /\ pc = "NotStarted" => calls = <<>>
    /\ pc # "NotStarted" =>
          /\ calls[1] = ParseCall
          /\ Cardinality(ParseCalls) = 1
          /\ Cardinality(RunCalls) <= 1
          /\ Len(calls) = 1 + Cardinality(RunCalls)
          /\ RunCalls # {} <=> opt # Unset
    /\ pc = "Parsing" => RunCalls = {}
    /\ pc \in {"Running", "Succeeded"} => RunCalls = {2}

C1_Steps ==
    /\ pc' # pc => <<pc, pc'>> \in PcEdges
    /\ pc' = pc => calls' = calls
    /\ pc \in Terminal => UNCHANGED hookVars
    /\ (raised # Unset) => UNCHANGED hookVars

\* C1: every hook invocation runs NotStarted -> Parsing -> Running ->
\* {Succeeded, Failed}: parse is called exactly once and first, run at most
\* once and only after parse returned, no call is repeated, and the first
\* failure ends the invocation in Failed with no further collaborator call.
C1_LinearInvocation == [](C1_CallOrder) /\ [][C1_Steps]_vars

C1_Witness ==
    /\ pc = "Failed"
    /\ hook = "train"
    /\ module_file = "src/sparseml/yolov5/scripts.py"
    /\ calls = << [fn |-> parse_train_args,
                   kwargs |-> [default_project_dir |->
                                 PosixPath("/work/src/sparseml/yolov5")]] >>
    /\ raised = Raise("SystemExit")

\* C2: once parse returned a configuration with field mapping F, the hook
\* has called the run function of the same hook exactly once, with keyword
\* arguments exactly F, and the body of run sees every field of F unchanged.
C2_FieldsForwarded ==
    opt # Unset =>
        /\ Cardinality(RunCalls) = 1
        /\ \A i \in RunCalls : calls[i].kwargs = opt.dict
        /\ \A i \in 1..Len(calls) : IsRunCall(calls[i]) \/ calls[i] = ParseCall
        /\ bodyArgs # Unset =>
              \A n \in DOMAIN opt.dict : bodyArgs[n] = opt.dict[n]

C2_Witness ==
    /\ pc = "Succeeded"
    /\ hook = "export"
    /\ opt = Namespace([a |-> PyInt(1), b |-> PyInt(2)])
    /\ calls[2] = [fn |-> export_run, kwargs |-> [a |-> PyInt(1), b |-> PyInt(2)]]
    /\ bodyArgs = [a |-> PyInt(1), b |-> PyInt(2)]

\* C3 as claimed: when run returns v, the hook's own result is v.
C3_ResultIsRunValue ==
    returned # Unset => outcome = Return(returned.value)

\* C3: when run returns v, the invocation ends Succeeded and the hook's own
\* result is None whatever v is: the return value of run is discarded.
C3_ResultIsNone ==
    returned # Unset => pc = "Succeeded" /\ outcome = Return(PyNone)

C3_Witness ==
    /\ returned = Return(PyInt(2))
    /\ outcome = Return(PyNone)
    /\ pc = "Succeeded"

MissingRequired == opt # Unset /\ ~(runSig.required \subseteq DOMAIN opt.dict)

\* C4 as claimed: a configuration lacking a parameter run requires ends the
\* invocation with IntegrationContractError, the body of run not executed.
C4_ContractError ==
    (MissingRequired /\ pc \in Terminal) =>
        outcome = Raise("IntegrationContractError") /\ bodyArgs = Unset

\* C4: a configuration lacking a parameter run requires never executes the
\* body of run, never succeeds, and ends the invocation with the TypeError
\* of the call itself; no field is dropped or defaulted on the way.
C4_TypeError ==
    MissingRequired =>
        /\ bodyArgs = Unset
        /\ returned = Unset
        /\ pc \in {"Running", "Failed"}
        /\ pc = "Failed" => outcome = Raise("TypeError")
        /\ \A i \in RunCalls : calls[i].kwargs = opt.dict

C4_Witness ==
    /\ pc = "Failed"
    /\ opt = Namespace([a |-> PyInt(1), b |-> PyInt(2)])
    /\ runSig.required = {"a", "b", "c"}
    /\ outcome = Raise("TypeError")
    /\ bodyArgs = Unset

\* C5: an exception raised by parse, by run or by the run call reaches the
\* caller of the hook as that same exception, and the hook ends Failed.
C5_ExceptionPropagates ==
    /\ raised # Unset => pc = "Failed" /\ outcome = raised
    /\ pc = "Failed" => raised # Unset
    /\ pc = "Succeeded" => raised = Unset

C5_Witness ==
    /\ Len(calls) = 2
    /\ bodyArgs # Unset
    /\ raised = Raise("ValueError")
    /\ outcome = Raise("ValueError")
    /\ pc = "Failed"

Built == manifest # NotBuilt
IsRelease == setup_globals.is_release = PyBool(TRUE)
\* the package a requirement "name~=version" names, and the version it pins
RequirementName(req) == Before(req, "~")
RequirementPin(req) == After(req, "=")

\* C6: the package is named sparseml exactly when is_release is true and
\* sparseml-nightly otherwise (false or unset), and the companions are
\* sparsezoo/deepsparse or their -nightly names by the same flag.
C6_ReleaseNaming ==
    Built =>
        /\ IsRelease =>
              /\ manifest.name = "sparseml"
              /\ RequirementName(manifest.install_requires[1]) = "sparsezoo"
              /\ RequirementName(manifest.extras_require.deepsparse[1]) = "deepsparse"
        /\ ~IsRelease =>
              /\ manifest.name = "sparseml-nightly"
              /\ RequirementName(manifest.install_requires[1]) = "sparsezoo-nightly"
              /\ RequirementName(manifest.extras_require.deepsparse[1])
                    = "deepsparse-nightly"

C6_Witness ==
    /\ Built
    /\ setup_globals.is_release = PyBool(FALSE)
    /\ manifest.name = "sparseml-nightly"
    /\ manifest.extras_require.deepsparse[1] = "deepsparse-nightly~=0.2.0"

\* C7: for a current version major.minor.patch both companion pins are
\* major.minor.0, whatever the patch and whatever the release flag.
C7_CompanionPin ==
    Built =>
        LET pin == Dotted(version_base[1], version_base[2]) \o ".0" IN
        /\ RequirementPin(manifest.install_requires[1]) = pin
        /\ RequirementPin(manifest.extras_require.deepsparse[1]) = pin

C7_Witness ==
    /\ Built
    /\ manifest.version = "1.4.3"
    /\ IsRelease
    /\ manifest.install_requires[1] = "sparsezoo~=1.4.0"
    /\ manifest.extras_require.deepsparse[1] = "deepsparse~=1.4.0"

CommandNames(m) ==
    [i \in 1..Len(m.entry_points.console_scripts) |->
        EntryName(m.entry_points.console_scripts[i])]

\* C8: no two entries of the console-script table share a command name.
C8_UniqueCommands ==
    Built => NoDuplicates(CommandNames(manifest))

C8_Witness ==
    /\ Built
    /\ Len(manifest.entry_points.console_scripts) = 20
    /\ CommandNames(manifest)[4] = "sparseml.transformers.masked_language_modeling"
    /\ CommandNames(manifest)[5] = "sparseml.transformers.train.masked_language_modeling"

\* C9: resolving any single extra yields install_requires as a strict
\* prefix, then the extra's own list in its order, with no duplicate entry.
C9_ResolveSingle ==
    Built =>
        \A name \in DOMAIN manifest.extras_require :
            LET core == manifest.install_requires
                own == manifest.extras_require[name]
                res == resolve(manifest, name)
            IN /\ Len(res) > Len(core)
               /\ SubSeq(res, 1, Len(core)) = core
               /\ SubSeq(res, Len(core) + 1, Len(res)) = own
               /\ NoDuplicates(res)
               /\ RequirementName(core[1]) \in {"sparsezoo", "sparsezoo-nightly"}
               /\ Tail(core) = _deps

C9_Witness ==
    /\ Built
    /\ Len(resolve(manifest, "torchvision")) = 25
    /\ resolve(manifest, "deepsparse")[21] = "deepsparse~=1.0.0"

Yolov5Scripts ==
    {e \in Range(_setup_entry_points.console_scripts) :
        SubSeq(EntryName(e), 1, 16) = "sparseml.yolov5."}

\* C10: each of the four yolov5 console scripts targets a function that
\* sparseml.yolov5.scripts defines and lists in __all__, the four targets
\* differ, and every hook calls the parse and the run function of one and
\* the same toolkit module, the one its name says.
C10_EntriesMatchHooks ==
    /\ {EntryName(e) : e \in Yolov5Scripts} =
          { "sparseml.yolov5.export_onnx", "sparseml.yolov5.train",
            "sparseml.yolov5.validation", "sparseml.yolov5.val_onnx" }
    /\ \A e \in Yolov5Scripts :
          /\ EntryModule(e) = "sparseml.yolov5.scripts"
          /\ \A file \in ModuleFiles : EntryAttr(e) \in DOMAIN ScriptsModule(file)
          /\ EntryAttr(e) \in Range(__all__)
    /\ Cardinality({EntryAttr(e) : e \in Yolov5Scripts}) = 4
    /\ \A file \in ModuleFiles : \A h \in DOMAIN ScriptsModule(file) :
          /\ ScriptsModule(file)[h].parse.module = "yolov5." \o h
          /\ ScriptsModule(file)[h].run.module = "yolov5." \o h
    /\ \A i \in 1..Len(calls) : calls[i].fn.module = "yolov5." \o hook

C10_Witness ==
    /\ pc = "Succeeded"
    /\ hook = "val_onnx"
    /\ calls[1].fn = parse_val_onnx_args
    /\ calls[2].fn = val_onnx_run

====
